---- MODULE Spec2Model ----
(***************************************************************************)
(* A model of delta's Painter (src/paint.rs): the buffers of removed and   *)
(* added lines, the background style sections computed for them           *)
(* (StringPair, set_background_style_sections), the composition of syntax  *)
(* and background styles (superimpose_style_sections) and the output       *)
(* buffer that emit writes to the output stream.                           *)
(*                                                                         *)
(* A Rust String is modelled as the sequence of its chars; every char is a *)
(* one-character TLA+ string, except WIDE, which stands for a char whose   *)
(* UTF-8 encoding takes two bytes.  str::len and the slices minus[a..b]    *)
(* count bytes, chars() counts chars.                                      *)
(***************************************************************************)
EXTENDS Integers, Sequences, FiniteSets, TLC

VARIABLES
    minus_lines,                 \* Painter.minus_lines
    plus_lines,                  \* Painter.plus_lines
    minus_line_style_sections,   \* Painter.minus_line_style_sections
    plus_line_style_sections,    \* Painter.plus_line_style_sections
    output_buffer,               \* Painter.output_buffer
    writer,                      \* everything Painter.writer has received
    config,                      \* Painter.config (fixed after construction)
    pc,                          \* position of the caller / of paint_buffered_lines
    emit_result,                 \* what emit returned, while the caller holds it
    detail,                      \* locals of the diff_detail loop as it ends, one record per pair
    sections_1,                  \* argument of superimpose_style_sections
    sections_2,                  \* argument of superimpose_style_sections
    superimposed                 \* outcome of superimpose_style_sections

vars == <<minus_lines, plus_lines, minus_line_style_sections,
          plus_line_style_sections, output_buffer, writer, config, pc,
          emit_result, detail, sections_1, sections_2, superimposed>>

painter_vars == <<minus_lines, plus_lines, minus_line_style_sections,
                  plus_line_style_sections, output_buffer, writer, config,
                  pc, emit_result, detail>>

compositor_vars == <<sections_1, sections_2, superimposed>>

(***************************************************************************)
(* Bounds.                                                                 *)
(***************************************************************************)
\* longest line of the line-pair specification (besides the worked examples)
MaxLen == 3
\* most trailing spaces appended when comparing emphasis ranges
MaxPad == 2
\* most lines the painter machine takes in over a run
MaxTotalLines == 3
\* most spans in an argument of superimpose_style_sections
MaxSpans == 2

(***************************************************************************)
(* Strings.                                                                *)
(***************************************************************************)
SPACE == " "
WIDE == "U+00E9"

Max(a, b) == IF a >= b THEN a ELSE b
Min(a, b) == IF a <= b THEN a ELSE b

\* char::len_utf8
CharLen(c) == IF c = WIDE THEN 2 ELSE 1

RECURSIVE ByteLen(_)
\* str::len: the length in bytes
ByteLen(s) == IF s = <<>> THEN 0 ELSE CharLen(Head(s)) + ByteLen(Tail(s))

\* byte offset at which the char of index k (from 0) starts
ByteOffset(s, k) == ByteLen(SubSeq(s, 1, k))

\* str::is_char_boundary
IsCharBoundary(s, i) == \E k \in 0..Len(s) : ByteOffset(s, k) = i

\* whether the slice s[a..b] is taken without a panic
SliceOk(s, a, b) == a <= b /\ b <= ByteLen(s) /\ IsCharBoundary(s, a) /\ IsCharBoundary(s, b)

CharIndex(s, i) == CHOOSE k \in 0..Len(s) : ByteOffset(s, k) = i

\* the slice s[a..b], a and b byte offsets
Slice(s, a, b) == SubSeq(s, CharIndex(s, a) + 1, CharIndex(s, b))

RECURSIVE Reverse(_)
\* Iterator::rev over chars()
Reverse(s) == IF s = <<>> THEN <<>> ELSE Append(Reverse(Tail(s)), Head(s))

\* the rest of an iterator after n items were consumed
Drop(s, n) == SubSeq(s, n + 1, Len(s))

RECURSIVE Concat(_)
\* concatenation of a sequence of sequences
Concat(ss) == IF ss = <<>> THEN <<>> ELSE Head(ss) \o Concat(Tail(ss))

\* the strings over the chars cs of at most n chars
StringsUpTo(cs, n) == UNION {[1..k -> cs] : k \in 0..n}

(***************************************************************************)
(* StringPair.                                                             *)
(***************************************************************************)
RECURSIVE common_prefix_length_naive(_, _)
\* a variant that skips over a difference instead of stopping at it
common_prefix_length_naive(s0, s1) ==
    IF s0 = <<>> \/ s1 = <<>> THEN 0
    ELSE (IF Head(s0) # Head(s1) THEN 0 ELSE 1)
         + common_prefix_length_naive(Tail(s0), Tail(s1))

RECURSIVE common_prefix_length(_, _)
common_prefix_length(s0, s1) ==
    IF s0 = <<>> \/ s1 = <<>> THEN 0
    ELSE IF Head(s0) # Head(s1) THEN 0
    ELSE 1 + common_prefix_length(Tail(s0), Tail(s1))

\* a variant that consumes nothing
consume_whitespace_none(s) == 0

RECURSIVE consume_whitespace(_)
\* number of leading space chars of the (reversed) iterator s
consume_whitespace(s) ==
    IF s # <<>> /\ Head(s) = SPACE THEN 1 + consume_whitespace(Tail(s)) ELSE 0

\* <<common suffix length, trailing whitespace of s0 and of s1>>
suffix_data(s0, s1) ==
    LET r0 == Reverse(s0)
        r1 == Reverse(s1)
        n0 == consume_whitespace(r0)
        n1 == consume_whitespace(r1)
    IN  <<common_prefix_length(Drop(r0, n0), Drop(r1, n1)),
          [i \in 0..1 |-> IF i = 0 THEN n0 ELSE n1]>>

StringPair_new(s0, s1) ==
    LET sd == suffix_data(s0, s1)
        trailing_whitespace == sd[2]
    IN  [common_prefix_length |-> common_prefix_length(s0, s1),
         common_suffix_length |-> sd[1],
         lengths |-> [i \in 0..1 |->
                        IF i = 0 THEN ByteLen(s0) - trailing_whitespace[0]
                                 ELSE ByteLen(s1) - trailing_whitespace[1]]]

(***************************************************************************)
(* Styles (syntect's Style and StyleModifier) and the configuration.       *)
(***************************************************************************)
NO_COLOR == "NO_COLOR"
NONE == "None"

Colors == {NO_COLOR, "BLACK", "WHITE"}
FontStyles == {"BOLD", "UNDERLINE"}

MkStyle(fg, bg, font) == [foreground |-> fg, background |-> bg, font_style |-> font]

\* Style::apply: every channel the modifier sets replaces the style's
apply(style, modifier) ==
    [foreground |-> IF modifier.foreground = NONE THEN style.foreground
                    ELSE modifier.foreground,
     background |-> IF modifier.background = NONE THEN style.background
                    ELSE modifier.background,
     font_style |-> IF modifier.font_style = NONE THEN style.font_style
                    ELSE modifier.font_style]

\* the fields of config::Config the painter reads
MkConfig(highlight_removed) ==
    [highlight_removed |-> highlight_removed,
     no_style |-> MkStyle(NO_COLOR, NO_COLOR, "BOLD"),
     minus_style_modifier |-> MkStyle(NONE, "LIGHT_RED", NONE),
     minus_emph_style_modifier |-> MkStyle(NONE, "RED", NONE),
     plus_style_modifier |-> MkStyle(NONE, "LIGHT_GREEN", NONE),
     plus_emph_style_modifier |-> MkStyle(NONE, "GREEN", NONE)]

Configs == {MkConfig(b) : b \in BOOLEAN}

(***************************************************************************)
(* superimpose_style_sections.  A section is <<style, text>>.              *)
(***************************************************************************)
RECURSIVE explode(_)
\* one <<style, char>> for every char of every section, in order
explode(style_sections) ==
    IF style_sections = <<>> THEN <<>>
    ELSE LET style == Head(style_sections)[1]
             string == Head(style_sections)[2]
         IN  [i \in 1..Len(string) |-> <<style, string[i]>>]
             \o explode(Tail(style_sections))

\* Iterator::zip: as long as the shorter of the two
zip(xs, ys) == [i \in 1..Min(Len(xs), Len(ys)) |-> <<xs[i], ys[i]>>]

\* panics at the first pair whose chars differ
superimpose(style_section_pairs) ==
    IF \E i \in DOMAIN style_section_pairs :
           style_section_pairs[i][1][2] # style_section_pairs[i][2][2]
    THEN [status |-> "panicked", value |-> <<>>]
    ELSE [status |-> "returned",
          value |-> [i \in DOMAIN style_section_pairs |->
                        <<apply(style_section_pairs[i][1][1],
                                style_section_pairs[i][2][1]),
                          style_section_pairs[i][1][2]>>]]

\* a variant that starts a section at every char
coalesce_every_char(style_sections) ==
    [i \in DOMAIN style_sections |-> <<style_sections[i][1], <<style_sections[i][2]>>>>]

RECURSIVE coalesce_loop(_, _, _, _)
\* the for loop of coalesce over the chars after the first
coalesce_loop(rest, current_style, current_string, coalesced) ==
    IF rest = <<>> THEN Append(coalesced, <<current_style, current_string>>)
    ELSE LET style == Head(rest)[1]
             c == Head(rest)[2]
         IN  IF style # current_style
             THEN coalesce_loop(Tail(rest), style, <<c>>,
                                Append(coalesced, <<current_style, current_string>>))
             ELSE coalesce_loop(Tail(rest), current_style, Append(current_string, c),
                                coalesced)

coalesce(style_sections) ==
    IF style_sections = <<>> THEN <<>>
    ELSE coalesce_loop(Tail(style_sections), Head(style_sections)[1],
                       <<Head(style_sections)[2]>>, <<>>)

superimpose_style_sections(s1, s2) ==
    LET result == superimpose(zip(explode(s1), explode(s2)))
    IN  IF result.status = "panicked" THEN result
        ELSE [status |-> "returned", value |-> coalesce(result.value)]

\* the text a list of sections describes
TextOf(style_sections) ==
    Concat([i \in DOMAIN style_sections |-> style_sections[i][2]])

\* the section of style_sections that holds the i-th char of its text
SectionOfChar(style_sections, i) ==
    CHOOSE k \in DOMAIN style_sections :
        /\ Len(TextOf(SubSeq(style_sections, 1, k - 1))) < i
        /\ i <= Len(TextOf(SubSeq(style_sections, 1, k)))

StyleOfChar(style_sections, i) == style_sections[SectionOfChar(style_sections, i)][1]

\* the same sections cut into one section per char
PerChar(style_sections) ==
    LET text == TextOf(style_sections)
    IN  [i \in 1..Len(text) |-> <<StyleOfChar(style_sections, i), <<text[i]>>>>]

(***************************************************************************)
(* Background style sections.                                              *)
(***************************************************************************)
\* a variant without the clamp to change_begin
change_end_unclamped(length, common_suffix_length, change_begin) ==
    length - common_suffix_length

\* max(length - common_suffix_length, change_begin)
change_end(length, common_suffix_length, change_begin) ==
    Max(length - common_suffix_length, change_begin)

\* the locals of one iteration of the loop of
\* set_background_style_sections_diff_detail
DiffDetailLocals(minus, plus) ==
    LET string_pair == StringPair_new(minus, plus)
        change_begin == string_pair.common_prefix_length
        minus_length == Max(string_pair.lengths[0], string_pair.common_prefix_length)
        plus_length == Max(string_pair.lengths[1], string_pair.common_prefix_length)
    IN  [minus |-> minus,
         plus |-> plus,
         string_pair |-> string_pair,
         change_begin |-> change_begin,
         minus_length |-> minus_length,
         plus_length |-> plus_length,
         minus_change_end |->
             change_end(minus_length, string_pair.common_suffix_length, change_begin),
         plus_change_end |->
             change_end(plus_length, string_pair.common_suffix_length, change_begin)]

\* Whether the iteration panics: a usize subtraction that would go below zero
\* (an overflow panic, or a wrapped offset past the end of the line), or a
\* slice whose offsets are out of order, out of range or inside a char.
DiffDetailPanics(d) ==
    \/ d.minus_length < d.string_pair.common_suffix_length
    \/ d.plus_length < d.string_pair.common_suffix_length
    \/ ~SliceOk(d.minus, 0, d.change_begin)
    \/ ~SliceOk(d.minus, d.change_begin, d.minus_change_end)
    \/ ~SliceOk(d.minus, d.minus_change_end, ByteLen(d.minus))
    \/ ~SliceOk(d.plus, 0, d.change_begin)
    \/ ~SliceOk(d.plus, d.change_begin, d.plus_change_end)
    \/ ~SliceOk(d.plus, d.plus_change_end, ByteLen(d.plus))

\* the three sections pushed for one line
DiffDetailSections(line, begin, end, style_modifier, emph_style_modifier) ==
    << <<style_modifier, Slice(line, 0, begin)>>,
       <<emph_style_modifier, Slice(line, begin, end)>>,
       <<style_modifier, Slice(line, end, ByteLen(line))>> >>

set_background_style_sections_plain ==
    /\ minus_line_style_sections' = minus_line_style_sections \o
           [i \in 1..Len(minus_lines) |->
               << <<config.minus_style_modifier, minus_lines[i]>> >>]
    /\ plus_line_style_sections' = plus_line_style_sections \o
           [i \in 1..Len(plus_lines) |->
               << <<config.plus_style_modifier, plus_lines[i]>> >>]
    /\ detail' = <<>>
    /\ pc' = "styled"

\* A panic aborts the process: the painter is not used again, and the
\* sections pushed before the panic are never read.
set_background_style_sections_diff_detail ==
    LET n == Min(Len(minus_lines), Len(plus_lines))
        locals == [i \in 1..n |-> DiffDetailLocals(minus_lines[i], plus_lines[i])]
        panicking == {i \in 1..n : DiffDetailPanics(locals[i])}
    IN  IF panicking = {}
        THEN /\ minus_line_style_sections' = minus_line_style_sections \o
                    [i \in 1..n |->
                        DiffDetailSections(minus_lines[i], locals[i].change_begin,
                                           locals[i].minus_change_end,
                                           config.minus_style_modifier,
                                           config.minus_emph_style_modifier)]
             /\ plus_line_style_sections' = plus_line_style_sections \o
                    [i \in 1..n |->
                        DiffDetailSections(plus_lines[i], locals[i].change_begin,
                                           locals[i].plus_change_end,
                                           config.plus_style_modifier,
                                           config.plus_emph_style_modifier)]
             /\ detail' = locals
             /\ pc' = "styled"
        ELSE /\ detail' = SubSeq(locals, 1, CHOOSE i \in panicking :
                                               \A j \in panicking : i <= j)
             /\ pc' = "aborted"
             /\ UNCHANGED <<minus_line_style_sections, plus_line_style_sections>>

\* a variant that never looks for the changed part of a line
set_background_style_sections_always_plain ==
    set_background_style_sections_plain

set_background_style_sections ==
    IF Len(minus_lines) = Len(plus_lines)
    THEN set_background_style_sections_diff_detail
    ELSE set_background_style_sections_plain

CallerTurn == pc \in {"idle", "painted", "emitted"}

\* paint_buffered_lines, first statement
PaintBufferedLines_SetBackground ==
    /\ CallerTurn
    /\ set_background_style_sections
    /\ emit_result' = "none"
    /\ UNCHANGED <<minus_lines, plus_lines, output_buffer, writer, config,
                   compositor_vars>>

(***************************************************************************)
(* Painting.  The output buffer is a sequence of tokens: <<"ESC[48;2", c>>  *)
(* and <<"ESC[38;2", c>> are the escape sequences that set the background  *)
(* and the foreground to the colour c, <<"char", c>> is the char c.        *)
(***************************************************************************)
NEWLINE == <<"char", "\n">>

\* what paint_section appends to the output buffer
paint_section(text, style) ==
    (IF style.background = NO_COLOR THEN <<>>
     ELSE << <<"ESC[48;2", style.background>> >>)
    \o (IF style.foreground = NO_COLOR THEN <<>>
        ELSE << <<"ESC[38;2", style.foreground>> >>)
    \o [i \in 1..Len(text) |-> <<"char", text[i]>>]

\* The syntax highlighter is not part of the painter: h says where it cuts a
\* line in two and which styles it gives the parts; its sections always cover
\* the line.
Highlighters ==
    { [cut |-> 0, first |-> MkStyle("BLACK", NO_COLOR, "BOLD"),
       rest |-> MkStyle("BLACK", NO_COLOR, "BOLD")],
      [cut |-> 1, first |-> MkStyle("WHITE", "BLACK", "BOLD"),
       rest |-> MkStyle(NO_COLOR, NO_COLOR, "UNDERLINE")] }

highlight(h, line) ==
    IF line = <<>> THEN <<>>
    ELSE IF h.cut = 0 \/ h.cut >= Len(line) THEN << <<h.rest, line>> >>
    ELSE << <<h.first, SubSeq(line, 1, h.cut)>>,
            <<h.rest, SubSeq(line, h.cut + 1, Len(line))>> >>

RECURSIVE paint_sections(_)
paint_sections(superimposed_style_sections) ==
    IF superimposed_style_sections = <<>> THEN <<>>
    ELSE paint_section(Head(superimposed_style_sections)[2],
                       Head(superimposed_style_sections)[1])
         \o paint_sections(Tail(superimposed_style_sections))

RECURSIVE paint_lines(_, _, _, _, _)
\* the output buffer after paint_lines, or a panic of superimpose
paint_lines(lines, line_style_sections, syntax_highlight, h, buffer) ==
    IF lines = <<>> \/ line_style_sections = <<>>
    THEN [status |-> "returned", value |-> buffer]
    ELSE LET line == Head(lines)
             style_sections == Head(line_style_sections)
             syntax_highlighting_style_sections ==
                 IF syntax_highlight THEN highlight(h, line)
                 ELSE << <<config.no_style, line>> >>
             superimposed_style_sections ==
                 superimpose_style_sections(syntax_highlighting_style_sections,
                                            style_sections)
         IN  IF superimposed_style_sections.status = "panicked"
             THEN [status |-> "panicked", value |-> buffer]
             ELSE paint_lines(Tail(lines), Tail(line_style_sections),
                              syntax_highlight, h,
                              buffer \o paint_sections(superimposed_style_sections.value)
                                     \o <<NEWLINE>>)

\* a variant of Vec::clear that leaves the vector as it is
clear_nothing(v) == v

\* Vec::clear
clear(v) == <<>>

\* paint_buffered_lines, the removed lines
PaintBufferedLines_Minus ==
    /\ pc = "styled"
    /\ IF Len(minus_lines) > 0
       THEN \E h \in Highlighters :
               LET painted == paint_lines(minus_lines, minus_line_style_sections,
                                          config.highlight_removed, h, output_buffer)
               IN  IF painted.status = "panicked"
                   THEN /\ pc' = "aborted"
                        /\ UNCHANGED <<minus_lines, minus_line_style_sections,
                                       output_buffer>>
                   ELSE /\ output_buffer' = painted.value
                        /\ minus_lines' = clear(minus_lines)
                        /\ minus_line_style_sections' = clear(minus_line_style_sections)
                        /\ pc' = "minus_done"
       ELSE /\ pc' = "minus_done"
            /\ UNCHANGED <<minus_lines, minus_line_style_sections, output_buffer>>
    /\ detail' = <<>>
    /\ UNCHANGED <<plus_lines, plus_line_style_sections, writer, config,
                   emit_result, compositor_vars>>

\* paint_buffered_lines, the added lines, and its return
PaintBufferedLines_Plus ==
    /\ pc = "minus_done"
    /\ IF Len(plus_lines) > 0
       THEN \E h \in Highlighters :
               LET painted == paint_lines(plus_lines, plus_line_style_sections,
                                          TRUE, h, output_buffer)
               IN  IF painted.status = "panicked"
                   THEN /\ pc' = "aborted"
                        /\ UNCHANGED <<plus_lines, plus_line_style_sections,
                                       output_buffer>>
                   ELSE /\ output_buffer' = painted.value
                        /\ plus_lines' = clear(plus_lines)
                        /\ plus_line_style_sections' = clear(plus_line_style_sections)
                        /\ pc' = "painted"
       ELSE /\ pc' = "painted"
            /\ UNCHANGED <<plus_lines, plus_line_style_sections, output_buffer>>
    /\ UNCHANGED <<minus_lines, minus_line_style_sections, writer, config,
                   emit_result, detail, compositor_vars>>

\* a variant of emit that empties the buffer whatever the write returned
emit_truncating_on_error ==
    /\ CallerTurn
    /\ \E write_ok \in BOOLEAN :
           /\ writer' = IF write_ok THEN writer \o output_buffer ELSE writer
           /\ emit_result' = IF write_ok THEN "Ok" ELSE "Err"
           /\ output_buffer' = <<>>
    /\ pc' = "emitted"
    /\ UNCHANGED <<minus_lines, plus_lines, minus_line_style_sections,
                   plus_line_style_sections, config, detail, compositor_vars>>

\* emit: one write of the whole buffer, which the output stream takes or
\* refuses; `?` returns the error before the buffer is truncated
emit ==
    /\ CallerTurn
    /\ \E write_ok \in BOOLEAN :
           IF write_ok
           THEN /\ writer' = writer \o output_buffer
                /\ output_buffer' = SubSeq(output_buffer, 1, 0)
                /\ emit_result' = "Ok"
           ELSE /\ emit_result' = "Err"
                /\ UNCHANGED <<writer, output_buffer>>
    /\ pc' = "emitted"
    /\ UNCHANGED <<minus_lines, plus_lines, minus_line_style_sections,
                   plus_line_style_sections, config, detail, compositor_vars>>

(***************************************************************************)
(* The painter and its caller, which buffers removed and added lines and   *)
(* calls paint_buffered_lines and emit.                                    *)
(***************************************************************************)
PainterLines == { <<"a", "b">>, <<"b">>, <<WIDE>> }

\* number of line ends in a sequence of output tokens
LineEnds(tokens) == Cardinality({i \in DOMAIN tokens : tokens[i] = NEWLINE})

\* lines buffered, painted or written so far
LinesTaken ==
    Len(minus_lines) + Len(plus_lines) + LineEnds(output_buffer) + LineEnds(writer)

BufferMinusLine ==
    /\ CallerTurn
    /\ LinesTaken < MaxTotalLines
    /\ \E line \in PainterLines : minus_lines' = Append(minus_lines, line)
    /\ pc' = "idle"
    /\ emit_result' = "none"
    /\ UNCHANGED <<plus_lines, minus_line_style_sections, plus_line_style_sections,
                   output_buffer, writer, config, detail, compositor_vars>>

BufferPlusLine ==
    /\ CallerTurn
    /\ LinesTaken < MaxTotalLines
    /\ \E line \in PainterLines : plus_lines' = Append(plus_lines, line)
    /\ pc' = "idle"
    /\ emit_result' = "none"
    /\ UNCHANGED <<minus_lines, minus_line_style_sections, plus_line_style_sections,
                   output_buffer, writer, config, detail, compositor_vars>>

Init ==
    /\ minus_lines = <<>>
    /\ plus_lines = <<>>
    /\ minus_line_style_sections = <<>>
    /\ plus_line_style_sections = <<>>
    /\ output_buffer = <<>>
    /\ writer = <<>>
    /\ config \in Configs
    /\ pc = "idle"
    /\ emit_result = "none"
    /\ detail = <<>>
    /\ sections_1 = <<>>
    /\ sections_2 = <<>>
    /\ superimposed = [status |-> "none", value |-> <<>>]

Next ==
    \/ BufferMinusLine
    \/ BufferPlusLine
    \/ PaintBufferedLines_SetBackground
    \/ PaintBufferedLines_Minus
    \/ PaintBufferedLines_Plus
    \/ emit

Spec == Init /\ [][Next]_vars

(***************************************************************************)
(* Reference definitions the properties are stated with.                   *)
(***************************************************************************)
\* number of chars of s left when its trailing spaces are stripped
TrimmedChars(s) ==
    CHOOSE k \in 0..Len(s) :
        /\ k = 0 \/ s[k] # SPACE
        /\ \A j \in (k + 1)..Len(s) : s[j] = SPACE

RTrimmed(s) == SubSeq(s, 1, TrimmedChars(s))

\* k is the length of the longest common prefix of s0 and s1
IsLongestCommonPrefix(k, s0, s1) ==
    /\ k \in 0..Min(Len(s0), Len(s1))
    /\ \A j \in 1..k : s0[j] = s1[j]
    /\ k < Min(Len(s0), Len(s1)) => s0[k + 1] # s1[k + 1]

\* k is the length of the longest common suffix of s0 and s1
IsLongestCommonSuffix(k, s0, s1) ==
    /\ k \in 0..Min(Len(s0), Len(s1))
    /\ \A j \in 0..(k - 1) : s0[Len(s0) - j] = s1[Len(s1) - j]
    /\ k < Min(Len(s0), Len(s1)) => s0[Len(s0) - k] # s1[Len(s1) - k]

(***************************************************************************)
(* Properties of the painter (Spec).                                       *)
(***************************************************************************)
\* one list of sections per line, each describing its line
Aligned(lines, line_style_sections) ==
    /\ Len(line_style_sections) = Len(lines)
    /\ \A i \in DOMAIN lines : TextOf(line_style_sections[i]) = lines[i]

\* the single section of a line styled as a whole
IsPlain(style_sections, line, style_modifier) ==
    style_sections = << <<style_modifier, line>> >>

\* the three sections [0,begin), [begin,end), [end,length) of a line
IsDetailed(style_sections, line, begin, end, style_modifier, emph_style_modifier) ==
    /\ Len(style_sections) = 3
    /\ style_sections[1][1] = style_modifier
    /\ style_sections[2][1] = emph_style_modifier
    /\ style_sections[3][1] = style_modifier
    /\ ByteLen(style_sections[1][2]) = begin
    /\ ByteLen(style_sections[2][2]) = end - begin
    /\ ByteLen(style_sections[3][2]) = ByteLen(line) - end
    /\ TextOf(style_sections) = line

C8_BuffersClearedAfterPaint ==
    /\ pc = "painted" =>
           /\ minus_lines = <<>>
           /\ plus_lines = <<>>
           /\ minus_line_style_sections = <<>>
           /\ plus_line_style_sections = <<>>
    /\ CallerTurn =>
           /\ minus_line_style_sections = <<>>
           /\ plus_line_style_sections = <<>>
    /\ pc = "styled" =>
           /\ Aligned(minus_lines, minus_line_style_sections)
           /\ Aligned(plus_lines, plus_line_style_sections)
    /\ pc = "minus_done" =>
           /\ minus_lines = <<>>
           /\ minus_line_style_sections = <<>>
           /\ Aligned(plus_lines, plus_line_style_sections)

\* a second paint cycle, of lines of one side only, has returned
C8_Witness ==
    /\ pc = "painted"
    /\ LineEnds(writer) = 1
    /\ LineEnds(output_buffer) = 2
    /\ minus_lines = <<>>
    /\ plus_lines = <<>>
    /\ minus_line_style_sections = <<>>
    /\ plus_line_style_sections = <<>>

\* C9: emit either writes the whole output buffer, after which the output
\* stream has received exactly the buffered text and the buffer is empty, or
\* returns the error of the write, the buffer and the stream left as they were.
C9_EmitWritesOrKeeps ==
    [][pc' = "emitted" =>
          \/ /\ emit_result' = "Ok"
             /\ writer' = writer \o output_buffer
             /\ output_buffer' = <<>>
          \/ /\ emit_result' = "Err"
             /\ writer' = writer
             /\ output_buffer' = output_buffer]_vars

\* emit has returned an error with text in the buffer, after an earlier emit
\* that succeeded
C9_Witness ==
    /\ pc = "emitted"
    /\ emit_result = "Err"
    /\ output_buffer # <<>>
    /\ writer # <<>>

(***************************************************************************)
(* The line-pair specification: a painter holding one removed and one      *)
(* added line, about to compute their background style sections.          *)
(***************************************************************************)
PairChars == {SPACE, "a", "b", WIDE}

ExampleLines ==
    { <<"a", " ", "c">>, <<"a", " ", "b", " ", "c">>,
      <<"a", " ", " ", " ", " ">>, <<"a", " ", "b", " ", " ">> }

PairLines == StringsUpTo(PairChars, MaxLen) \cup ExampleLines

InitPair ==
    /\ minus_lines \in {<<m>> : m \in PairLines}
    /\ plus_lines \in {<<p>> : p \in PairLines}
    /\ minus_line_style_sections = <<>>
    /\ plus_line_style_sections = <<>>
    /\ output_buffer = <<>>
    /\ writer = <<>>
    /\ config = MkConfig(TRUE)
    /\ pc = "idle"
    /\ emit_result = "none"
    /\ detail = <<>>
    /\ sections_1 = <<>>
    /\ sections_2 = <<>>
    /\ superimposed = [status |-> "none", value |-> <<>>]

NextPair == PaintBufferedLines_SetBackground

SpecPair == InitPair /\ [][NextPair]_vars

(***************************************************************************)
(* Properties of the change range of a pair of lines (SpecPair).           *)
(***************************************************************************)
Spaces(k) == [i \in 1..k |-> SPACE]

MinusEmphasis(d) == d.minus_change_end - d.change_begin
PlusEmphasis(d) == d.plus_change_end - d.change_begin

\* C1: for every pair of lines the diff-detail loop processes, the offsets
\* satisfy 0 <= change_begin <= change_end <= line length on both lines, with
\* change_begin the common prefix length and change_end
\* max(max(trimmed length, prefix) - suffix, change_begin); the subtraction
\* never goes below zero; for "a c" / "a b c" the removed line's change_end is 2.
C1_OffsetsClamped ==
    \A i \in DOMAIN detail :
        LET d == detail[i]
            pre == d.string_pair.common_prefix_length
            suf == d.string_pair.common_suffix_length
        IN  /\ d.change_begin = pre
            /\ 0 <= d.change_begin
            /\ d.change_begin <= d.minus_change_end
            /\ d.minus_change_end <= ByteLen(d.minus)
            /\ d.change_begin <= d.plus_change_end
            /\ d.plus_change_end <= ByteLen(d.plus)
            /\ Max(ByteLen(RTrimmed(d.minus)), pre) - suf >= 0
            /\ Max(ByteLen(RTrimmed(d.plus)), pre) - suf >= 0
            /\ d.minus_change_end =
                   Max(Max(ByteLen(RTrimmed(d.minus)), pre) - suf, d.change_begin)
            /\ d.plus_change_end =
                   Max(Max(ByteLen(RTrimmed(d.plus)), pre) - suf, d.change_begin)
            /\ (d.minus = <<"a", " ", "c">> /\ d.plus = <<"a", " ", "b", " ", "c">>)
                   => d.minus_change_end = 2

\* the pair "a c" / "a b c" was processed: prefix and suffix overlap in "a c"
C1_Witness ==
    /\ pc = "styled"
    /\ Len(detail) = 1
    /\ detail[1].minus = <<"a", " ", "c">>
    /\ detail[1].plus = <<"a", " ", "b", " ", "c">>
    /\ detail[1].string_pair.common_prefix_length = 2
    /\ detail[1].string_pair.common_suffix_length = 2
    /\ detail[1].minus_change_end = 2
    /\ detail[1].plus_change_end = 3

\* C4: StringPair::new yields the length of the longest common prefix of the
\* raw strings, the length of the longest common suffix of the strings with
\* their trailing spaces stripped, and the lengths of the stripped strings.
C4_StringPairNew ==
    \A i \in DOMAIN detail :
        LET d == detail[i]
            sp == d.string_pair
        IN  /\ IsLongestCommonPrefix(sp.common_prefix_length, d.minus, d.plus)
            /\ sp.common_prefix_length <= Min(Len(d.minus), Len(d.plus))
            /\ IsLongestCommonSuffix(sp.common_suffix_length,
                                     RTrimmed(d.minus), RTrimmed(d.plus))
            /\ sp.lengths[0] = ByteLen(RTrimmed(d.minus))
            /\ sp.lengths[1] = ByteLen(RTrimmed(d.plus))

\* "ab " / "b": trailing space on one side, a common suffix, no common prefix
C4_Witness ==
    /\ Len(detail) = 1
    /\ detail[1].minus = <<"a", "b", " ">>
    /\ detail[1].plus = <<"b">>
    /\ detail[1].string_pair.common_prefix_length = 0
    /\ detail[1].string_pair.common_suffix_length = 1
    /\ detail[1].string_pair.lengths[0] = 2
    /\ detail[1].string_pair.lengths[1] = 1

IsC6Pair(d) ==
    /\ d.minus = <<"a", " ", " ", " ", " ">>
    /\ d.plus = <<"a", " ", "b", " ", " ">>

\* C6 as stated: for "a    " / "a b  " the range of both lines starts at 1 and
\* lies within each line's trimmed length.
C6_AsStated ==
    \A i \in DOMAIN detail :
        IsC6Pair(detail[i]) =>
            /\ detail[i].change_begin = 1
            /\ detail[i].change_begin <= detail[i].minus_change_end
            /\ detail[i].minus_change_end <= ByteLen(RTrimmed(detail[i].minus))
            /\ detail[i].change_begin <= detail[i].plus_change_end
            /\ detail[i].plus_change_end <= ByteLen(RTrimmed(detail[i].plus))

\* C6 amended: for "a    " / "a b  " the range of both lines starts at the
\* common prefix length 2; the removed line's range is the empty [2,2), the
\* added line's is [2,3), which ends at its trimmed length.
C6_Amended ==
    \A i \in DOMAIN detail :
        IsC6Pair(detail[i]) =>
            /\ detail[i].string_pair.common_prefix_length = 2
            /\ detail[i].change_begin = 2
            /\ detail[i].minus_change_end = 2
            /\ detail[i].plus_change_end = 3
            /\ detail[i].plus_change_end = ByteLen(RTrimmed(detail[i].plus))

C6_Witness ==
    /\ pc = "styled"
    /\ Len(detail) = 1
    /\ IsC6Pair(detail[1])
    /\ Len(minus_line_style_sections) = 1
    /\ minus_line_style_sections[1][2][2] = <<>>
    /\ plus_line_style_sections[1][2][2] = <<"b">>

\* short is long with a section cut out that has a char before it and a char
\* after it in the line and holds a char that is not a space
IsInternalDeletion(long, short) ==
    \E i \in 1..(Len(long) - 2) : \E j \in (i + 1)..(Len(long) - 1) :
        /\ \E k \in (i + 1)..j : long[k] # SPACE
        /\ short = SubSeq(long, 1, i) \o SubSeq(long, j + 1, Len(long))

\* C10: when the added line is the removed line with such a section deleted,
\* the removed line has a non-empty emphasis range and the added line an empty
\* one; symmetrically for an inserted section.
C10_DeletionHighlighted ==
    \A i \in DOMAIN detail :
        LET d == detail[i]
        IN  /\ IsInternalDeletion(d.minus, d.plus)
                   => MinusEmphasis(d) > 0 /\ PlusEmphasis(d) = 0
            /\ IsInternalDeletion(d.plus, d.minus)
                   => PlusEmphasis(d) > 0 /\ MinusEmphasis(d) = 0

(***************************************************************************)
(* The compositor specification: superimpose_style_sections called on any  *)
(* two lists of sections.                                                  *)
(***************************************************************************)
\* the styles and the modifier of the tests of superimpose_style_sections
STYLE == MkStyle("BLACK", "BLACK", "BOLD")
STYLE_MODIFIER == MkStyle("WHITE", "WHITE", "UNDERLINE")
SUPERIMPOSED_STYLE == MkStyle("WHITE", "WHITE", "UNDERLINE")

SyntaxStyles == {STYLE, MkStyle("WHITE", NO_COLOR, "BOLD")}
StyleModifiers == {STYLE_MODIFIER, MkStyle(NONE, "BLACK", NONE)}

SyntaxTexts == {<<>>, <<"a">>, <<"b">>, <<"a", "b">>}
ModifierTexts == {<<>>, <<"a">>, <<"b">>, <<"c">>}

SeqsUpTo(S, n) == UNION {[1..k -> S] : k \in 0..n}

InitCompositor ==
    /\ sections_1 \in SeqsUpTo(SyntaxStyles \X SyntaxTexts, MaxSpans)
    /\ sections_2 \in SeqsUpTo(StyleModifiers \X ModifierTexts, MaxSpans)
    /\ superimposed = [status |-> "none", value |-> <<>>]
    /\ minus_lines = <<>>
    /\ plus_lines = <<>>
    /\ minus_line_style_sections = <<>>
    /\ plus_line_style_sections = <<>>
    /\ output_buffer = <<>>
    /\ writer = <<>>
    /\ config = MkConfig(TRUE)
    /\ pc = "idle"
    /\ emit_result = "none"
    /\ detail = <<>>

SuperimposeStyleSections ==
    /\ superimposed.status = "none"
    /\ superimposed' = superimpose_style_sections(sections_1, sections_2)
    /\ UNCHANGED <<sections_1, sections_2, painter_vars>>

NextCompositor == SuperimposeStyleSections

SpecCompositor == InitCompositor /\ [][NextCompositor]_vars

\* C2: superimpose_style_sections returns only when the texts of its two
\* arguments are equal; on every other pair of arguments it panics.
C2_ReturnsOnlyOnEqualTexts ==
    superimposed.status = "returned" => TextOf(sections_1) = TextOf(sections_2)

\* C3: on two arguments describing the same text, superimpose_style_sections
\* returns the run-length encoding of the per-char styles
\* style_i.apply(modifier_i): the texts concatenate to the line, no section is
\* empty, adjacent sections differ in style, every char has the style of its
\* position, the segmentation of the arguments does not matter, and
\* coalescing the result again returns it unchanged.
C3_RunLengthEncoding ==
    (superimposed.status # "none" /\ TextOf(sections_1) = TextOf(sections_2)) =>
        LET out == superimposed.value
            text == TextOf(sections_1)
        IN  /\ superimposed.status = "returned"
            /\ TextOf(out) = text
            /\ \A k \in DOMAIN out : out[k][2] # <<>>
            /\ \A k \in 1..(Len(out) - 1) : out[k][1] # out[k + 1][1]
            /\ \A i \in 1..Len(text) :
                   StyleOfChar(out, i) =
                       apply(StyleOfChar(sections_1, i), StyleOfChar(sections_2, i))
            /\ superimpose_style_sections(PerChar(sections_1), PerChar(sections_2))
                   = superimposed
            /\ coalesce(explode(out)) = out

\* the second test of the module: "ab" in one section against "a", "b" under
\* the same modifier gives one section
C3_Witness ==
    /\ sections_1 = << <<STYLE, <<"a", "b">>>> >>
    /\ sections_2 = << <<STYLE_MODIFIER, <<"a">>>>, <<STYLE_MODIFIER, <<"b">>>> >>
    /\ superimposed = [status |-> "returned",
                       value |-> << <<SUPERIMPOSED_STYLE, <<"a", "b">>>> >>]

====
